---- MODULE Spec2Model ----
(***************************************************************************)
(* Job control of the msh shell (src/minishell.c): the job registry, the   *)
(* liveness check, the listing and fg built-ins, the pipeline executor's   *)
(* fork/wait loop and the SIGINT handler swapping.                         *)
(*                                                                         *)
(* The shell is single threaded: its position is pc.  Child processes run  *)
(* concurrently and exit on their own (ProcExit); the terminal may deliver *)
(* an interrupt at any moment (Sigint).  Blocking calls (wait, waitpid     *)
(* without WNOHANG) are steps that are enabled only once they can return.  *)
(*                                                                         *)
(* Process ids are handed out in increasing order and never reused.  The   *)
(* instruction text of a job never influences control flow and is left     *)
(* out; a job is identified by the process id of its first stage.          *)
(* signal() keeps a handler installed after a delivery (BSD semantics, the *)
(* glibc default), and fork()/pipe() are taken to succeed.                 *)
(*                                                                         *)
(* SpecPipe looks at one executeExternalCommands call at the level of file *)
(* descriptors: the shell's descriptor table, the snapshot variables, the  *)
(* two pipe arrays and the table each child has when it reaches execvp.    *)
(* In Spec and SpecCap the descriptor variables stay at FdIdle.            *)
(***************************************************************************)
EXTENDS Integers, Sequences, FiniteSets, TLC

\* #define MAXIMUM_JOB_LIST_SIZE 50
MAXIMUM_JOB_LIST_SIZE == 50

\* Longest pipeline the model launches (line->ncommands).
MaxCmds == 2

\* Number of processes forked in one behaviour of Spec.
MaxProcs == 4

\* Number of processes forked in one behaviour of SpecCap.
CapProcs == 51

\* In SpecCap only the processes with the first CapExits process ids terminate.
CapExits == 1

\* Longest pipeline of SpecPipe (line->ncommands).
MaxPipeCmds == 4

\* The descriptor numbers a process may have open are 0 .. FdLimit - 1.
FdLimit == 9

\* Longest pipeline of SpecFlow (line->ncommands).
MaxFlowCmds == 3

\* Largest pipe capacity of SpecFlow, in bytes.
MaxCap == 3

\* Largest number of bytes the first stage writes in SpecFlow.
MaxData == 4

\* An uninitialised int holds -1 (no valid descriptor number) or 0 .. GarbageMax.
GarbageMax == 2

\* #define PIPE_READ 0, #define PIPE_WRITE 1
PIPE_READ == 0
PIPE_WRITE == 1

\* <unistd.h>
STDIN_FILENO == 0
STDOUT_FILENO == 1
STDERR_FILENO == 2

VARIABLES
    list,        \* jobs.list: the malloc'ed array of MAXIMUM_JOB_LIST_SIZE tjob
    jobsSize,    \* jobs.size
    procs,       \* the processes forked so far; the index is the process id
    handler,     \* the shell's SIGINT disposition
    pc,          \* where the shell is
    commands,    \* executeExternalCommands: commands
    command,     \* executeExternalCommands: index of the next stage to fork
    background,  \* executeExternalCommands: background
    currentJob,  \* executeExternalCommands: currentJob, as an index into list
    mappedJob,   \* mshfg: mappedJob
    index,       \* mshfg: index of the wait loop
    callPids,    \* history: the process ids forked by the current/last execute
    lastWaited,  \* history: what the last wait(NULL) of the current execute reaped
    lastOp,      \* history: the last operation the prompt loop completed
    report,      \* history: what the last listing or fg saw and printed
    doneListed,  \* history: the jobs some listing has printed Done for
    announced,   \* history: the "[slot] pid" line the current/last execute printed
    fds,         \* the shell's descriptor table: what each number is open on
    stdinfd,     \* executeExternalCommands: stdinfd
    stdoutfd,    \* executeExternalCommands: stdoutfd
    stderrfd,    \* executeExternalCommands: stderrfd
    p,           \* executeExternalCommands: p[PIPE]
    p2,          \* executeExternalCommands: p2[PIPE]
    line,        \* which redirections the command line has and whether they open
    children,    \* history: each stage's descriptor table when it left the shell's code
    pipes,       \* history: the number of pipes created by the current execute
    cap,         \* the capacity of a pipe, in bytes
    buf,         \* the bytes waiting in each pipe of the current execute
    todo         \* the bytes each stage still has to write

fdVars == <<fds, stdinfd, stdoutfd, stderrfd, p, p2, line, children, pipes>>

flowVars == <<cap, buf, todo>>

vars == <<list, jobsSize, procs, handler, pc, commands, command, background,
          currentJob, mappedJob, index, callPids, lastWaited, lastOp, report,
          doneListed, announced, fdVars, flowVars>>

execLocals == <<commands, command, background, currentJob>>
fgLocals == <<mappedJob, index>>

Slots == 0 .. (MAXIMUM_JOB_LIST_SIZE - 1)
PidSlots == 0 .. (MaxCmds - 1)

\* The process group of the shell, which the terminal has in the foreground.
ShellPgid == "shell"

\* tjob without its instruction text.
tjob(size, pids, fin) == [size |-> size, pids |-> pids, finished |-> fin]

\* What malloc() may hand back: the array is never initialised.
JunkJobs == { tjob(0, [k \in PidSlots |-> 0], 0),
              tjob(1, [k \in PidSlots |-> 0], 1) }

\* The remainder of C's integer division (truncation towards zero).
CMod(a, b) == IF a >= 0 THEN a % b ELSE -((-a) % b)

\* A zombie: terminated and not yet waited for.
Zombie(proc) == proc.state \in {"exited", "killed"}

\* fork() followed by execvp() in the child: the child stays in the shell's
\* process group (no setpgid is ever called) and exec resets a caught SIGINT
\* to the default action, while an ignored one stays ignored.
fork(h) == [state |-> "running", pgid |-> ShellPgid,
            sigint |-> IF h = "SIG_IGN" THEN "SIG_IGN" ELSE "SIG_DFL"]

\* waitpid(pid, NULL, ...) once it can return: the pid of a zombie child, which
\* is reaped; 0 for a running child (WNOHANG); -1 (ECHILD) for anything else.
waitpid(ps, pid) ==
    IF pid \in DOMAIN ps /\ Zombie(ps[pid])
    THEN [ret |-> pid, procs |-> [ps EXCEPT ![pid].state = "reaped"]]
    ELSE IF pid \in DOMAIN ps /\ ps[pid].state = "running"
    THEN [ret |-> 0, procs |-> ps]
    ELSE [ret |-> -1, procs |-> ps]

RECURSIVE finishedLoop(_, _, _)
finishedLoopMut(job, ps, i) ==
    IF i >= job.size
    THEN [ret |-> 1, finished |-> 1, procs |-> ps, waits |-> i]
    ELSE LET r == waitpid(ps, job.pids[i])
         IN IF r.ret = -1
            THEN [ret |-> 0, finished |-> job.finished, procs |-> r.procs,
                  waits |-> i + 1]
            ELSE finishedLoop(job, r.procs, i + 1)

\* finished(): the loop over the job's process ids.
finishedLoop(job, ps, i) ==
    IF i >= job.size
    THEN [ret |-> 1, finished |-> 1, procs |-> ps, waits |-> i]
    ELSE LET r == waitpid(ps, job.pids[i])
         IN IF r.ret # job.pids[i]
            THEN [ret |-> 0, finished |-> job.finished, procs |-> r.procs,
                  waits |-> i + 1]
            ELSE finishedLoop(job, r.procs, i + 1)

finishedMut(job, ps) == finishedLoop(job, ps, 0)

\* finished(job): the value returned, the job's flag and the process table after,
\* and (history) the number of waitpid calls made.
finished(job, ps) ==
    IF job.finished = 1
    THEN [ret |-> 1, finished |-> job.finished, procs |-> ps, waits |-> 0]
    ELSE finishedLoop(job, ps, 0)

deleteMut(job, l, size) ==
    [list |-> [i \in DOMAIN l |-> IF i > job /\ i < size THEN l[i + 1] ELSE l[i]],
     size |-> CMod(size - 1, MAXIMUM_JOB_LIST_SIZE)]

\* delete(job, jobs): the array and the size after.
delete(job, l, size) ==
    [list |-> [i \in DOMAIN l |-> IF i >= job /\ i < size THEN l[i + 1] ELSE l[i]],
     size |-> CMod(size - 1, MAXIMUM_JOB_LIST_SIZE)]

\* History only: whether every process of the job has terminated.
AllExited(job, ps) ==
    \A k \in 0 .. (job.size - 1) :
        job.pids[k] \in DOMAIN ps => ps[job.pids[k]].state # "running"

ReportOf(job, ps, r) ==
    [id |-> job.pids[0], size |-> job.size, done |-> (r.ret = 1),
     latched |-> (r.finished = 1), allExited |-> AllExited(job, ps),
     wasLatched |-> (job.finished = 1), waits |-> r.waits]

\* mshjobs(): the first loop, from job j on.
RECURSIVE JobsPass(_, _, _, _, _, _)
JobsPass(j, n, l, ps, fin, rep) ==
    IF j >= n
    THEN [list |-> l, procs |-> ps, finishedJobs |-> fin, report |-> rep]
    ELSE LET r == finished(l[j], ps)
         IN JobsPass(j + 1, n, [l EXCEPT ![j].finished = r.finished], r.procs,
                     IF r.ret = 1 THEN Append(fin, j) ELSE fin,
                     Append(rep, ReportOf(l[j], ps, r)))

\* mshjobs(): the second loop, from finishedJobs[k] on.
RECURSIVE DeleteAll(_, _, _, _)
DeleteAll(fin, k, l, size) ==
    IF k > Len(fin)
    THEN [list |-> l, size |-> size]
    ELSE LET d == delete(fin[k], l, size)
         IN DeleteAll(fin, k + 1, d.list, d.size)

\* History only: the process ids recorded in job j of the registry (a job that a
\* background execute is still launching has recorded its first `command` stages).
RecordedPids(j) ==
    {list[j].pids[k] : k \in 0 .. ((IF pc = "forkN" /\ background /\ j = currentJob
                                    THEN command ELSE list[j].size) - 1)}

RegisteredPids == UNION {RecordedPids(j) : j \in 0 .. (jobsSize - 1)}

\* History only: the jobs of the registry in slot order, by first process id.
RegistryIds == [j \in 1 .. jobsSize |-> list[j - 1].pids[0]]

NoWait == [pid |-> 0, just |-> 0, registered |-> FALSE]

NoAnnounce == [slot |-> -1, pid |-> 0]

\* atoi() on the arguments the model passes to fg.
atoi(s) ==
    CASE s = "-1" -> -1
      [] s = "1" -> 1
      [] s = "1x" -> 1
      [] s = "2" -> 2
      [] s = "3" -> 3
      [] s = "4" -> 4
      [] s = "5" -> 5
      [] OTHER -> 0

\* The argument of fg: absent (NULL) or a word.
FgArgs == {[null |-> TRUE, text |-> ""]} \cup
          {[null |-> FALSE, text |-> t] : t \in {"-1", "0", "x", "1x", "1", "2", "3"}}

----------------------------------------------------------------------------
\* Descriptor tables

Fds == 0 .. (FdLimit - 1)

\* What a descriptor number is open on.  Files 0, 1 and 2 are the files the
\* shell has as stdin, stdout and stderr before the call; the others are the
\* targets of the line's redirections.
Closed == [kind |-> "closed", id |-> 0, end |-> ""]
File(n) == [kind |-> "file", id |-> n, end |-> ""]
PipeEnd(k, e) == [kind |-> "pipe", id |-> k, end |-> e]
InputTarget == File(3)
OutputTarget == File(4)
ErrorTarget == File(5)

\* The table the shell has at the prompt.
StdTable ==
    [fd \in Fds |-> IF fd \in {STDIN_FILENO, STDOUT_FILENO, STDERR_FILENO}
                    THEN File(fd) ELSE Closed]

NoTable == [fd \in Fds |-> Closed]

isOpen(t, fd) == fd \in Fds /\ t[fd].kind # "closed"

\* dup2(oldfd, newfd): EBADF leaves the table as it is.
dup2(t, oldfd, newfd) ==
    IF isOpen(t, oldfd) /\ newfd \in Fds
    THEN [t EXCEPT ![newfd] = t[oldfd]]
    ELSE t

close(t, fd) == IF fd \in Fds THEN [t EXCEPT ![fd] = Closed] ELSE t

Free(t) == {fd \in Fds : t[fd].kind = "closed"}

lowest(S) == CHOOSE x \in S : \A y \in S : x <= y

\* pipe(): the two lowest free numbers become the ends of pipe number k.
pipe(t, k) ==
    IF Cardinality(Free(t)) < 2
    THEN [ok |-> FALSE, fds |-> t, r |-> -1, w |-> -1]
    ELSE LET r == lowest(Free(t))
             w == lowest(Free(t) \ {r})
         IN [ok |-> TRUE,
             fds |-> [t EXCEPT ![r] = PipeEnd(k, "r"), ![w] = PipeEnd(k, "w")],
             r |-> r, w |-> w]

\* Lines 248-253.
store(t, in, out, err) ==
    dup2(dup2(dup2(t, STDERR_FILENO, err), STDIN_FILENO, in), STDOUT_FILENO, out)

\* Lines 344-349.
restore(t, in, out, err) ==
    dup2(dup2(dup2(t, err, STDERR_FILENO), in, STDIN_FILENO), out, STDOUT_FILENO)

\* Lines 295-312 when fopen succeeds: the file takes the lowest free number,
\* is duplicated onto STD_FILENO and closed (the second close fails).
auxiliarRedirect(t, target, STD_FILENO) ==
    IF Free(t) = {}
    THEN t
    ELSE LET fd == lowest(Free(t))
         IN close(close(dup2([t EXCEPT ![fd] = target], fd, STD_FILENO), fd), fd)

\* What fileno(NULL) and fclose(NULL) after a failed fopen (lines 306, 310)
\* can do: the process dies of SIGSEGV, or both calls fail and it goes on.
NullFile == {"crash", "goes_on"}

Redirections == {"none", "opens", "fails"}

\* One if-statement of redirect under the outcome ub of a failed open.
redirectOne(r, how, target, STD_FILENO, ub) ==
    IF r.crashed \/ how = "none"
    THEN r
    ELSE IF how = "opens"
    THEN [fds |-> auxiliarRedirect(r.fds, target, STD_FILENO), crashed |-> FALSE]
    ELSE [fds |-> r.fds, crashed |-> (ub = "crash")]

\* Lines 267-283: error, then input, then output.
redirect(t, l, ub) ==
    redirectOne(
        redirectOne(
            redirectOne([fds |-> t, crashed |-> FALSE],
                        l.error, ErrorTarget, STDERR_FILENO, ub),
            l.input, InputTarget, STDIN_FILENO, ub),
        l.output, OutputTarget, STDOUT_FILENO, ub)

\* A stage as it leaves the shell's code: whether it reached execvp, its table
\* at that moment, and what it had inherited as stdin, stdout and stderr at fork.
Child(r, t, parent) ==
    [execs |-> ~r.crashed,
     alive |-> ~r.crashed,
     fds |-> IF r.crashed THEN NoTable ELSE t,
     in |-> parent[STDIN_FILENO],
     out |-> parent[STDOUT_FILENO],
     err |-> parent[STDERR_FILENO]]

\* Lines 396-408: the first stage.
firstChild(t, l, next, pp, ub) ==
    LET r == redirect(t, l, ub)
        t1 == close(r.fds, pp[PIPE_READ])
        t2 == dup2(t1, pp[PIPE_WRITE], STDOUT_FILENO)
        t3 == close(t2, pp[PIPE_WRITE])
    IN Child(r, IF next THEN t3 ELSE r.fds, t)

\* Lines 458-482: a later stage.
nextChild(t, l, even, last, pp, pp2, ub) ==
    LET r == redirect(t, l, ub)
        t1 == IF even
              THEN dup2(r.fds, pp2[PIPE_READ], STDIN_FILENO)
              ELSE dup2(r.fds, pp[PIPE_READ], STDIN_FILENO)
        t2 == IF last THEN t1
              ELSE IF even
              THEN dup2(t1, pp[PIPE_WRITE], STDOUT_FILENO)
              ELSE dup2(t1, pp2[PIPE_WRITE], STDOUT_FILENO)
        t3 == close(close(close(close(t2, pp[PIPE_READ]), pp[PIPE_WRITE]),
                          pp2[PIPE_READ]), pp2[PIPE_WRITE])
    IN Child(r, t3, t)

\* Lines 486-511: what the shell closes after forking a later stage.
parentCloses(t, even, last, pp, pp2) ==
    IF even
    THEN LET t1 == close(dup2(t, STDIN_FILENO, pp[PIPE_WRITE]), pp[PIPE_WRITE])
             t2 == close(t1, pp2[PIPE_READ])
         IN IF last THEN close(close(t2, pp[PIPE_READ]), pp2[PIPE_WRITE]) ELSE t2
    ELSE LET t1 == close(dup2(t, STDIN_FILENO, pp2[PIPE_WRITE]), pp2[PIPE_WRITE])
             t2 == close(t1, pp[PIPE_READ])
         IN IF last THEN close(close(t2, pp2[PIPE_READ]), pp[PIPE_WRITE]) ELSE t2

\* The content of an int nobody has assigned.
Garbage == (-1) .. GarbageMax

NoLine == [input |-> "none", output |-> "none", error |-> "none"]
NoPipe == [i \in {PIPE_READ, PIPE_WRITE} |-> -1]

FlowStages == 0 .. (MaxFlowCmds - 1)

\* The data-flow variables while the data in the pipes is not looked at.
FlowIdle ==
    /\ cap = 1
    /\ buf = [i \in FlowStages |-> 0]
    /\ todo = [i \in FlowStages |-> 0]

\* The descriptor variables while the descriptor level is not looked at.
FdIdle ==
    /\ fds = StdTable
    /\ stdinfd = -1
    /\ stdoutfd = -1
    /\ stderrfd = -1
    /\ p = NoPipe
    /\ p2 = NoPipe
    /\ line = NoLine
    /\ children = << >>
    /\ pipes = 0

Init ==
    /\ \E junk \in JunkJobs : list = [i \in Slots |-> junk]
    /\ jobsSize = 0
    /\ procs = << >>
    /\ handler = "ctrlc"
    /\ pc = "prompt"
    /\ commands = 0
    /\ command = 0
    /\ background = FALSE
    /\ currentJob = 0
    /\ mappedJob = 0
    /\ index = 0
    /\ callPids = << >>
    /\ lastWaited = NoWait
    /\ lastOp = "none"
    /\ report = << >>
    /\ doneListed = {}
    /\ announced = NoAnnounce
    /\ FdIdle
    /\ FlowIdle

----------------------------------------------------------------------------
\* executeExternalCommands

ExecStartMut(n, bg, limit) ==
    /\ pc = "prompt"
    /\ Len(procs) + n <= limit
    /\ handler' = (IF bg THEN handler ELSE "ctrlc2")
    /\ commands' = n
    /\ command' = 0
    /\ background' = bg
    /\ pc' = "fork0"
    /\ callPids' = << >>
    /\ lastWaited' = NoWait
    /\ report' = << >>
    /\ lastOp' = "exec"
    /\ announced' = NoAnnounce
    /\ UNCHANGED <<list, jobsSize, procs, currentJob, mappedJob, index, doneListed>>
    /\ UNCHANGED fdVars
    /\ UNCHANGED flowVars

\* Lines 379-390: install ctrlc2, snapshot the streams, read the line.
ExecStart(n, bg, limit) ==
    /\ pc = "prompt"
    /\ Len(procs) + n <= limit
    /\ handler' = "ctrlc2"
    /\ commands' = n
    /\ command' = 0
    /\ background' = bg
    /\ pc' = "fork0"
    /\ callPids' = << >>
    /\ lastWaited' = NoWait
    /\ report' = << >>
    /\ lastOp' = "exec"
    /\ announced' = NoAnnounce
    /\ UNCHANGED <<list, jobsSize, procs, currentJob, mappedJob, index, doneListed>>
    /\ UNCHANGED fdVars
    /\ UNCHANGED flowVars

\* Lines 392-433: fork the first stage; in background, register the job.
Fork0 ==
    /\ pc = "fork0"
    /\ procs' = Append(procs, fork(handler))
    /\ callPids' = Append(callPids, Len(procs) + 1)
    /\ command' = 1
    /\ IF background
       THEN /\ currentJob' = jobsSize
            /\ list' = [list EXCEPT ![jobsSize] =
                          [@ EXCEPT !.size = commands,
                                    !.pids[0] = Len(procs) + 1,
                                    !.finished = 0]]
            /\ jobsSize' = (jobsSize + 1) % MAXIMUM_JOB_LIST_SIZE
            /\ announced' = (IF commands > 1 THEN announced
                             ELSE [slot |-> jobsSize', pid |-> Len(procs) + 1])
            /\ pc' = (IF commands > 1 THEN "forkN" ELSE "end")
       ELSE /\ pc' = "wait"
            /\ UNCHANGED <<list, jobsSize, currentJob, announced>>
    /\ UNCHANGED <<handler, commands, background, mappedJob, index, lastWaited,
                   lastOp, report, doneListed>>
    /\ UNCHANGED fdVars
    /\ UNCHANGED flowVars

\* Lines 439-521: fork stage `command`; in background, record its process id.
ForkN ==
    /\ pc = "forkN"
    /\ procs' = Append(procs, fork(handler))
    /\ callPids' = Append(callPids, Len(procs) + 1)
    /\ command' = command + 1
    /\ IF background
       THEN /\ list' = [list EXCEPT ![currentJob].pids[command] = Len(procs) + 1]
            /\ announced' = (IF command = commands - 1
                             THEN [slot |-> jobsSize, pid |-> Len(procs) + 1]
                             ELSE announced)
            /\ pc' = (IF command + 1 < commands THEN "forkN" ELSE "end")
       ELSE /\ pc' = "wait"
            /\ UNCHANGED <<list, announced>>
    /\ UNCHANGED <<jobsSize, handler, commands, background, currentJob, mappedJob,
                   index, lastWaited, lastOp, report, doneListed>>
    /\ UNCHANGED fdVars
    /\ UNCHANGED flowVars

\* Lines 436 and 524: wait(NULL) returns once any child is a zombie, and reaps
\* it; with no child left to wait for it returns at once.
Wait ==
    /\ pc = "wait"
    /\ IF \A pid \in DOMAIN procs : procs[pid].state = "reaped"
       THEN /\ lastWaited' = NoWait
            /\ UNCHANGED procs
       ELSE \E pid \in DOMAIN procs :
               /\ Zombie(procs[pid])
               /\ procs' = [procs EXCEPT ![pid].state = "reaped"]
               /\ lastWaited' = [pid |-> pid, just |-> callPids[Len(callPids)],
                                 registered |-> (pid \in RegisteredPids)]
    /\ pc' = (IF command < commands THEN "forkN" ELSE "end")
    /\ UNCHANGED <<list, jobsSize, handler, commands, command, background, currentJob,
                   mappedJob, index, callPids, lastOp, report, doneListed,
                   announced>>
    /\ UNCHANGED fdVars
    /\ UNCHANGED flowVars

ExecEndMut ==
    /\ pc = "end"
    /\ pc' = "prompt"
    /\ lastOp' = (IF background THEN "exec_bg" ELSE "exec_fg")
    /\ commands' = 0
    /\ command' = 0
    /\ background' = FALSE
    /\ currentJob' = 0
    /\ UNCHANGED <<list, jobsSize, procs, handler, mappedJob, index, callPids,
                   lastWaited, report, doneListed, announced>>
    /\ UNCHANGED fdVars
    /\ UNCHANGED flowVars

\* Lines 530-533: restore the streams, reinstall ctrlc, return to the prompt.
ExecEnd ==
    /\ pc = "end"
    /\ handler' = "ctrlc"
    /\ pc' = "prompt"
    /\ lastOp' = (IF background THEN "exec_bg" ELSE "exec_fg")
    /\ commands' = 0
    /\ command' = 0
    /\ background' = FALSE
    /\ currentJob' = 0
    /\ UNCHANGED <<list, jobsSize, procs, mappedJob, index, callPids,
                   lastWaited, report, doneListed, announced>>
    /\ UNCHANGED fdVars
    /\ UNCHANGED flowVars

----------------------------------------------------------------------------
\* mshjobs

MshJobs ==
    /\ pc = "prompt"
    /\ LET pass == JobsPass(0, jobsSize, list, procs, << >>, << >>)
           del == DeleteAll(pass.finishedJobs, 1, pass.list, jobsSize)
       IN /\ list' = del.list
          /\ jobsSize' = del.size
          /\ procs' = pass.procs
          /\ report' = pass.report
          /\ doneListed' = doneListed \cup
                {pass.report[k].id : k \in {m \in DOMAIN pass.report : pass.report[m].done}}
    /\ lastOp' = "jobs"
    /\ callPids' = << >>
    /\ lastWaited' = NoWait
    /\ announced' = NoAnnounce
    /\ UNCHANGED <<handler, pc, execLocals, fgLocals>>
    /\ UNCHANGED fdVars
    /\ UNCHANGED flowVars

----------------------------------------------------------------------------
\* mshfg

\* mshfg(job, jobs) up to its blocking loop; fg without an argument is fg 1.
MshFg(arg) ==
    /\ pc = "prompt"
    /\ callPids' = << >>
    /\ lastWaited' = NoWait
    /\ announced' = NoAnnounce
    /\ LET job == IF arg.null THEN "1" ELSE arg.text
           m == atoi(job) - 1
       IN IF jobsSize = 0
          THEN /\ lastOp' = "fg_empty"
               /\ report' = << >>
               /\ UNCHANGED <<list, jobsSize, procs, handler, pc, fgLocals>>
          ELSE IF m < 0 \/ m > jobsSize - 1
          THEN /\ lastOp' = "fg_nosuch"
               /\ report' = << >>
               /\ UNCHANGED <<list, jobsSize, procs, handler, pc, fgLocals>>
          ELSE LET r == finished(list[m], procs)
                   l1 == [list EXCEPT ![m].finished = r.finished]
                   d == delete(m, l1, jobsSize)
               IN /\ procs' = r.procs
                  /\ report' = << ReportOf(list[m], procs, r) >>
                  /\ IF r.ret = 1
                     THEN /\ list' = d.list
                          /\ jobsSize' = d.size
                          /\ handler' = "ctrlc"
                          /\ lastOp' = "fg_done"
                          /\ UNCHANGED <<pc, fgLocals>>
                     ELSE /\ list' = l1
                          /\ handler' = "SIG_IGN"
                          /\ pc' = "fgwait"
                          /\ mappedJob' = m
                          /\ index' = 0
                          /\ lastOp' = "fg"
                          /\ UNCHANGED jobsSize
    /\ UNCHANGED <<execLocals, doneListed>>
    /\ UNCHANGED fdVars
    /\ UNCHANGED flowVars

FgWaitMut ==
    /\ pc = "fgwait"
    /\ index < list[mappedJob].size
    /\ procs' = waitpid(procs, list[mappedJob].pids[index]).procs
    /\ index' = index + 1
    /\ UNCHANGED <<list, jobsSize, handler, pc, execLocals, mappedJob, callPids,
                   lastWaited, lastOp, report, doneListed, announced>>
    /\ UNCHANGED fdVars
    /\ UNCHANGED flowVars

\* Line 841: waitpid(ranJob->pids[index], NULL, WAIT) returns once that process
\* is not running: it reaps a zombie, and fails at once for a reaped one.
FgWait ==
    /\ pc = "fgwait"
    /\ index < list[mappedJob].size
    /\ LET pid == list[mappedJob].pids[index]
       IN /\ pid \in DOMAIN procs => procs[pid].state # "running"
          /\ procs' = waitpid(procs, pid).procs
    /\ index' = index + 1
    /\ UNCHANGED <<list, jobsSize, handler, pc, execLocals, mappedJob, callPids,
                   lastWaited, lastOp, report, doneListed, announced>>
    /\ UNCHANGED fdVars
    /\ UNCHANGED flowVars

\* Lines 845-847: remove the job, reinstall ctrlc, return to the prompt.
FgEnd ==
    /\ pc = "fgwait"
    /\ index >= list[mappedJob].size
    /\ LET d == delete(mappedJob, list, jobsSize)
       IN /\ list' = d.list
          /\ jobsSize' = d.size
    /\ handler' = "ctrlc"
    /\ pc' = "prompt"
    /\ mappedJob' = 0
    /\ index' = 0
    /\ lastOp' = "fg_waited"
    /\ UNCHANGED <<procs, execLocals, callPids, lastWaited, report, doneListed,
                   announced>>
    /\ UNCHANGED fdVars
    /\ UNCHANGED flowVars

----------------------------------------------------------------------------
\* The environment

\* A running child terminates on its own.
ProcExit ==
    /\ \E pid \in DOMAIN procs :
          /\ procs[pid].state = "running"
          /\ procs' = [procs EXCEPT ![pid].state = "exited"]
    /\ UNCHANGED <<list, jobsSize, handler, pc, execLocals, fgLocals, callPids,
                   lastWaited, lastOp, report, doneListed, announced>>
    /\ UNCHANGED fdVars
    /\ UNCHANGED flowVars

\* ProcExit for one of the first CapExits processes.
ProcExitCap ==
    /\ \E pid \in DOMAIN procs :
          /\ pid <= CapExits
          /\ procs[pid].state = "running"
          /\ procs' = [procs EXCEPT ![pid].state = "exited"]
    /\ UNCHANGED <<list, jobsSize, handler, pc, execLocals, fgLocals, callPids,
                   lastWaited, lastOp, report, doneListed, announced>>
    /\ UNCHANGED fdVars
    /\ UNCHANGED flowVars

\* Ctrl+C: the terminal sends SIGINT to every process of its foreground process
\* group.  The shell has a handler installed or ignores the signal; a child with
\* the default action is terminated.
Sigint ==
    /\ \E pid \in DOMAIN procs : procs[pid].state = "running"
    /\ procs' = [pid \in DOMAIN procs |->
                    IF /\ procs[pid].state = "running"
                       /\ procs[pid].pgid = ShellPgid
                       /\ procs[pid].sigint = "SIG_DFL"
                    THEN [procs[pid] EXCEPT !.state = "killed"]
                    ELSE procs[pid]]
    /\ UNCHANGED <<list, jobsSize, handler, pc, execLocals, fgLocals, callPids,
                   lastWaited, lastOp, report, doneListed, announced>>
    /\ UNCHANGED fdVars
    /\ UNCHANGED flowVars

----------------------------------------------------------------------------

Next ==
    \/ \E n \in 1 .. MaxCmds, bg \in BOOLEAN : ExecStart(n, bg, MaxProcs)
    \/ Fork0
    \/ ForkN
    \/ Wait
    \/ ExecEnd
    \/ MshJobs
    \/ \E arg \in FgArgs : MshFg(arg)
    \/ FgWait
    \/ FgEnd
    \/ ProcExit
    \/ Sigint

Spec == Init /\ [][Next]_vars

\* The fg command lines typed in SpecCap.
CapFgArgs == {arg \in FgArgs : ~arg.null /\ arg.text \in {"1", "2"}}

\* Filling the registry: single-command background launches, listings and fg
\* while only the first CapExits children terminate.  Every behaviour of SpecCap
\* is a behaviour of the shell.
NextCap ==
    \/ ExecStart(1, TRUE, CapProcs)
    \/ Fork0
    \/ ExecEnd
    \/ MshJobs
    \/ \E arg \in CapFgArgs : MshFg(arg)
    \/ FgWait
    \/ FgEnd
    \/ ProcExitCap

SpecCap == Init /\ [][NextCap]_vars

----------------------------------------------------------------------------
\* executeExternalCommands at the level of descriptors: one call, from the
\* store at line 381 to the return.  The locals that are read before anything
\* is assigned to them start with any content: the three snapshot variables
\* always, p[PIPE_WRITE] for a single command (line 413).  The other cells of
\* p and p2 are written by pipe() before they are read.

InitPipe ==
    /\ list = [i \in Slots |-> tjob(0, [k \in PidSlots |-> 0], 0)]
    /\ jobsSize = 0
    /\ procs = << >>
    /\ handler = "ctrlc2"
    /\ pc = "fd_store"
    /\ commands \in 1 .. MaxPipeCmds
    /\ command = 0
    /\ background \in BOOLEAN
    /\ currentJob = 0
    /\ mappedJob = 0
    /\ index = 0
    /\ callPids = << >>
    /\ lastWaited = NoWait
    /\ lastOp = "exec"
    /\ report = << >>
    /\ doneListed = {}
    /\ announced = NoAnnounce
    /\ fds = StdTable
    /\ stdinfd \in Garbage
    /\ stdoutfd \in Garbage
    /\ stderrfd \in Garbage
    /\ \E g \in (IF commands = 1 THEN Garbage ELSE {-1}) :
          p = [NoPipe EXCEPT ![PIPE_WRITE] = g]
    /\ p2 = NoPipe
    /\ line \in [input : Redirections, output : Redirections, error : Redirections]
    /\ children = << >>
    /\ pipes = 0
    /\ FlowIdle

jobVars == <<list, jobsSize, procs, currentJob, fgLocals, callPids, lastWaited,
             lastOp, report, doneListed, announced>>

\* Line 381.
Store ==
    /\ pc = "fd_store"
    /\ fds' = store(fds, stdinfd, stdoutfd, stderrfd)
    /\ pc' = "fd_pipe"
    /\ UNCHANGED <<jobVars, handler, commands, command, background, stdinfd,
                   stdoutfd, stderrfd, p, p2, line, children, pipes>>
    /\ UNCHANGED flowVars

\* Lines 383-390.
FirstPipe ==
    /\ pc = "fd_pipe"
    /\ LET r == pipe(fds, pipes)
       IN IF commands > 1
          THEN /\ fds' = r.fds
               /\ p' = IF r.ok THEN [i \in {PIPE_READ, PIPE_WRITE} |->
                                        IF i = PIPE_READ THEN r.r ELSE r.w]
                       ELSE p
               /\ pipes' = IF r.ok THEN pipes + 1 ELSE pipes
          ELSE UNCHANGED <<fds, p, pipes>>
    /\ pc' = "fd_fork0"
    /\ UNCHANGED <<jobVars, handler, commands, command, background, stdinfd,
                   stdoutfd, stderrfd, p2, line, children>>
    /\ UNCHANGED flowVars

\* Lines 392-409: fork, and the child up to execvp.
SpawnFirst ==
    /\ pc = "fd_fork0"
    /\ \E ub \in NullFile :
          children' = << firstChild(fds, line, commands > 1, p, ub) >>
    /\ pc' = "fd_parent0"
    /\ UNCHANGED <<jobVars, handler, commands, command, background, fds, stdinfd,
                   stdoutfd, stderrfd, p, p2, line, pipes>>
    /\ UNCHANGED flowVars

\* wait(NULL) in the foreground returns when the stage just forked is gone.
waited(cs, bg) ==
    IF bg THEN cs ELSE [cs EXCEPT ![Len(cs)].alive = FALSE]

ParentFirstMut ==
    /\ pc = "fd_parent0"
    /\ fds' = restore(fds, stdinfd, stdoutfd, stderrfd)
    /\ children' = waited(children, background)
    /\ command' = 1
    /\ pc' = IF commands > 1 THEN "fd_loop" ELSE "fd_restore"
    /\ UNCHANGED <<jobVars, handler, commands, background, stdinfd, stdoutfd,
                   stderrfd, p, p2, line, pipes>>
    /\ UNCHANGED flowVars

\* Lines 413-437 and the loop head for command = 1.
ParentFirst ==
    /\ pc = "fd_parent0"
    /\ fds' = restore(close(fds, p[PIPE_WRITE]), stdinfd, stdoutfd, stderrfd)
    /\ children' = waited(children, background)
    /\ command' = 1
    /\ pc' = IF commands > 1 THEN "fd_loop" ELSE "fd_restore"
    /\ UNCHANGED <<jobVars, handler, commands, background, stdinfd, stdoutfd,
                   stderrfd, p, p2, line, pipes>>
    /\ UNCHANGED flowVars

\* Lines 441-452.
LoopPipe ==
    /\ pc = "fd_loop"
    /\ LET even == command % 2 = 0
           r == pipe(fds, pipes)
           ends == [i \in {PIPE_READ, PIPE_WRITE} |->
                       IF i = PIPE_READ THEN r.r ELSE r.w]
       IN /\ fds' = r.fds
          /\ pipes' = IF r.ok THEN pipes + 1 ELSE pipes
          /\ p' = IF even /\ r.ok THEN ends ELSE p
          /\ p2' = IF ~even /\ r.ok THEN ends ELSE p2
    /\ pc' = "fd_forkN"
    /\ UNCHANGED <<jobVars, handler, commands, command, background, stdinfd,
                   stdoutfd, stderrfd, line, children>>
    /\ UNCHANGED flowVars

\* Lines 454-483: fork, and the child up to execvp.
SpawnNext ==
    /\ pc = "fd_forkN"
    /\ \E ub \in NullFile :
          children' = Append(children,
                             nextChild(fds, line, command % 2 = 0,
                                       command = commands - 1, p, p2, ub))
    /\ pc' = "fd_parentN"
    /\ UNCHANGED <<jobVars, handler, commands, command, background, fds, stdinfd,
                   stdoutfd, stderrfd, p, p2, line, pipes>>
    /\ UNCHANGED flowVars

ParentNextMut ==
    /\ pc = "fd_parentN"
    /\ fds' = parentCloses(fds, command % 2 = 0, FALSE, p, p2)
    /\ children' = waited(children, background)
    /\ command' = command + 1
    /\ pc' = IF command + 1 < commands THEN "fd_loop" ELSE "fd_restore"
    /\ UNCHANGED <<jobVars, handler, commands, background, stdinfd, stdoutfd,
                   stderrfd, p, p2, line, pipes>>
    /\ UNCHANGED flowVars

\* Lines 484-526 and the loop head for the next command.
ParentNext ==
    /\ pc = "fd_parentN"
    /\ fds' = parentCloses(fds, command % 2 = 0, command = commands - 1, p, p2)
    /\ children' = waited(children, background)
    /\ command' = command + 1
    /\ pc' = IF command + 1 < commands THEN "fd_loop" ELSE "fd_restore"
    /\ UNCHANGED <<jobVars, handler, commands, background, stdinfd, stdoutfd,
                   stderrfd, p, p2, line, pipes>>
    /\ UNCHANGED flowVars

\* Lines 530-534.
Restore ==
    /\ pc = "fd_restore"
    /\ fds' = restore(fds, stdinfd, stdoutfd, stderrfd)
    /\ handler' = "ctrlc"
    /\ pc' = "fd_return"
    /\ UNCHANGED <<jobVars, commands, command, background, stdinfd, stdoutfd,
                   stderrfd, p, p2, line, children, pipes>>
    /\ UNCHANGED flowVars

NextPipe ==
    \/ Store
    \/ FirstPipe
    \/ SpawnFirst
    \/ ParentFirst
    \/ LoopPipe
    \/ SpawnNext
    \/ ParentNext
    \/ Restore

SpecPipe == InitPipe /\ [][NextPipe]_vars

----------------------------------------------------------------------------
\* A foreground pipeline with the data that flows through it.  The shell runs
\* Fork0, ForkN, Wait and ExecEnd as in Spec; the stages are not free to exit
\* when they like: the first stage writes its todo bytes and exits, a later
\* stage passes on what it reads (the last one to the terminal) and exits at
\* end-of-file.  A write into a full pipe blocks.  Pipe i is the one between
\* stage i and stage i + 1; the shell has closed its write end before it waits
\* (lines 413, 489, 502), so stage i is its only writer.

InitFlow ==
    /\ list = [i \in Slots |-> tjob(0, [k \in PidSlots |-> 0], 0)]
    /\ jobsSize = 0
    /\ procs = << >>
    /\ handler = "ctrlc2"
    /\ pc = "fork0"
    /\ commands \in 2 .. MaxFlowCmds
    /\ command = 0
    /\ background = FALSE
    /\ currentJob = 0
    /\ mappedJob = 0
    /\ index = 0
    /\ callPids = << >>
    /\ lastWaited = NoWait
    /\ lastOp = "exec"
    /\ report = << >>
    /\ doneListed = {}
    /\ announced = NoAnnounce
    /\ FdIdle
    /\ cap \in 1 .. MaxCap
    /\ buf = [i \in FlowStages |-> 0]
    /\ \E data \in 0 .. MaxData :
          todo = [i \in FlowStages |-> IF i = 0 THEN data ELSE 0]

\* Stage i has been forked and has not terminated.
Running(i) ==
    /\ i < Len(callPids)
    /\ procs[callPids[i + 1]].state = "running"

flowFrame == <<list, jobsSize, handler, pc, execLocals, fgLocals, callPids,
               lastWaited, lastOp, report, doneListed, announced>>

\* write(): one byte into the stage's output pipe if there is room, or to the
\* terminal for the last stage.
StageWrite(i) ==
    /\ Running(i)
    /\ todo[i] > 0
    /\ IF i = commands - 1
       THEN UNCHANGED buf
       ELSE /\ buf[i] < cap
            /\ buf' = [buf EXCEPT ![i] = @ + 1]
    /\ todo' = [todo EXCEPT ![i] = @ - 1]
    /\ UNCHANGED <<flowFrame, procs, cap>>
    /\ UNCHANGED fdVars

\* read(): one byte out of the stage's input pipe.
StageRead(i) ==
    /\ i >= 1
    /\ Running(i)
    /\ todo[i] = 0
    /\ buf[i - 1] > 0
    /\ buf' = [buf EXCEPT ![i - 1] = @ - 1]
    /\ todo' = [todo EXCEPT ![i] = 1]
    /\ UNCHANGED <<flowFrame, procs, cap>>
    /\ UNCHANGED fdVars

\* The stage exits: everything is written, and its input is at end-of-file
\* (the pipe is empty and its writer is gone).
StageExit(i) ==
    /\ Running(i)
    /\ todo[i] = 0
    /\ i >= 1 => (buf[i - 1] = 0 /\ ~Running(i - 1))
    /\ procs' = [procs EXCEPT ![callPids[i + 1]].state = "exited"]
    /\ UNCHANGED <<flowFrame, flowVars>>
    /\ UNCHANGED fdVars

NextFlow ==
    \/ Fork0
    \/ ForkN
    \/ Wait
    \/ ExecEnd
    \/ \E i \in FlowStages : StageWrite(i)
    \/ \E i \in FlowStages : StageRead(i)
    \/ \E i \in FlowStages : StageExit(i)

\* The shell and every stage take a step whenever they can.
SpecFlow == InitFlow /\ [][NextFlow]_vars /\ WF_vars(NextFlow)

----------------------------------------------------------------------------
\* Properties

ExecPcs == {"fork0", "forkN", "wait", "end"}

NotDone(e) == ~e.done

\* The jobs the last listing printed Running for, in slot order.
ReportedRunning ==
    LET kept == SelectSeq(report, NotDone)
    IN [k \in 1 .. Len(kept) |-> kept[k].id]

\* C1: after a listing pass the registry holds exactly the jobs the pass
\* reported Running, in their original order: every job reported Done is
\* removed and no job reported Running is.
C1_ListingKeepsExactlyRunning ==
    lastOp = "jobs" => RegistryIds = ReportedRunning

\* C2: a liveness check made when every process of the job has exited returns
\* true and latches the flag, whatever checks were made before.
C2_AllExitedIsFinished ==
    \A k \in DOMAIN report :
        report[k].allExited => report[k].done /\ report[k].latched

\* C3: a job is reported Done, by a listing or by fg, only when none of its
\* processes is still running.
C3_DoneOnlyWhenAllExited ==
    \A k \in DOMAIN report : report[k].done => report[k].allExited

\* A listing or fg has reported a two-process job Done while some other process
\* is still running.
C3_Witness ==
    /\ lastOp \in {"jobs", "fg_done"}
    /\ \E k \in DOMAIN report : report[k].done /\ report[k].size = 2
    /\ \E pid \in DOMAIN procs : procs[pid].state = "running"

\* C4: a job that some listing has printed Done for is in no later listing:
\* it is not in the registry when the shell is back at the prompt.
C4_DoneListedOnce ==
    pc = "prompt" => \A j \in 0 .. (jobsSize - 1) : list[j].pids[0] \notin doneListed

\* C5: when a foreground execute has returned to the prompt, every process it
\* forked has exited.
C5_ForegroundReturnsAfterExit ==
    (pc = "prompt" /\ lastOp = "exec_fg") =>
        \A k \in DOMAIN callPids : procs[callPids[k]].state # "running"

\* C6: a blocking wait of a foreground execute reaps the child just forked, and
\* never a process recorded in a job of the registry.
C6_WaitReapsJustSpawned ==
    lastWaited.pid # 0 =>
        lastWaited.pid = lastWaited.just /\ ~lastWaited.registered

\* C7: no process recorded in a job of the registry is terminated by an
\* interrupt from the terminal.
C7_SigintSparesBackgroundJobs ==
    \A pid \in RegisteredPids : pid \in DOMAIN procs => procs[pid].state # "killed"

\* C8: at the prompt the installed SIGINT handler is ctrlc, after every return
\* path of executeExternalCommands and mshfg, and the disposition is never the
\* default one.
C8_PromptHandlerIsCtrlc ==
    /\ pc = "prompt" => handler = "ctrlc"
    /\ handler \in {"ctrlc", "ctrlc2", "SIG_IGN"}

\* The shell is back at the prompt after fg has waited for a job.
C8_Witness ==
    pc = "prompt" /\ lastOp = "fg_waited" /\ handler = "ctrlc"

\* C9, as claimed: ctrlc2 is installed exactly during a foreground execute and
\* during the wait of fg, and not during a background execute.
C9_Ctrlc2ExactlyInForegroundWait ==
    handler = "ctrlc2" <=> ((pc \in ExecPcs /\ ~background) \/ pc = "fgwait")

\* C9, amended: ctrlc2 is installed exactly while an executeExternalCommands
\* call, foreground or background, is in progress; while fg waits SIGINT is
\* ignored.
C9_Ctrlc2ExactlyInExecute ==
    /\ handler = "ctrlc2" <=> pc \in ExecPcs
    /\ pc = "fgwait" => handler = "SIG_IGN"

\* A background execute is in progress, between its two forks.
C9_Witness ==
    pc = "forkN" /\ background /\ handler = "ctrlc2"

\* C10: the insertion of a background launch keeps every registered job at its
\* slot, and the job count grows by one or, at capacity, stays.
C10_InsertKeepsJobs ==
    [][(pc = "fork0" /\ background /\ pc' # "fork0") =>
          /\ \A j \in 0 .. (jobsSize - 1) : j < jobsSize' /\ list'[j] = list[j]
          /\ \/ jobsSize' = jobsSize + 1
             \/ jobsSize >= MAXIMUM_JOB_LIST_SIZE - 1 /\ jobsSize' = jobsSize]_vars

\* What a listing made now would print: one entry per slot, in slot order.
ListingNow == JobsPass(0, jobsSize, list, procs, << >>, << >>).report

\* C11: the slot announced by a background launch is the job's 1-based
\* insertion position, at least 1, and a listing made right after shows the job
\* under that slot.
C11_AnnouncedSlotIsPosition ==
    (pc = "prompt" /\ lastOp = "exec_bg") =>
        /\ announced.slot >= 1
        /\ announced.slot = jobsSize
        /\ announced.slot \in DOMAIN ListingNow
        /\ ListingNow[announced.slot].id = callPids[1]

\* The registry after delete(m, jobs), against the registry before: the jobs
\* below m stay, the jobs above m move down one slot, the count drops by one.
Removed(m, l, size, l2, size2) ==
    /\ size2 = size - 1
    /\ \A j \in 0 .. (m - 1) : l2[j] = l[j]
    /\ \A j \in (m + 1) .. (size - 1) : l2[j - 1] = l[j]

\* C12: delete(k, jobs) with 0 <= k < jobs->size keeps the jobs below k, moves
\* the jobs above k down by one and decreases the count by one; the count stays
\* within 0 .. MAXIMUM_JOB_LIST_SIZE - 1.
C12_DeleteShiftsCountInRange ==
    /\ jobsSize \in 0 .. (MAXIMUM_JOB_LIST_SIZE - 1)
    /\ \A k \in 0 .. (jobsSize - 1) :
          LET d == delete(k, list, jobsSize)
          IN Removed(k, list, jobsSize, d.list, d.size)

\* fg has removed the first job of a registry that was full.
C12_Witness ==
    /\ pc = "prompt"
    /\ lastOp = "fg_waited"
    /\ jobsSize = MAXIMUM_JOB_LIST_SIZE - 2
    /\ list[0].pids[0] = 2

\* The slot an fg argument names: 1 when absent, the number when it is one,
\* and 0 (no slot) for a word that is not a number.
SlotOf(arg) ==
    IF arg.null THEN 1
    ELSE CASE arg.text = "-1" -> -1
           [] arg.text = "1" -> 1
           [] arg.text = "2" -> 2
           [] arg.text = "3" -> 3
           [] OTHER -> 0

\* C17: fg on a valid slot k (no argument: slot 1) either finds the job finished
\* and removes exactly it, or waits on exactly it; the wait ends only when every
\* process of the job has exited, and then exactly that job is removed.
C17_FgWaitsThenRemoves ==
    [][/\ \A arg \in FgArgs :
            (MshFg(arg) /\ SlotOf(arg) \in 1 .. jobsSize) =>
                \/ /\ pc' = "prompt"
                   /\ Removed(SlotOf(arg) - 1, list, jobsSize, list', jobsSize')
                \/ /\ pc' = "fgwait"
                   /\ mappedJob' = SlotOf(arg) - 1
                   /\ UNCHANGED <<list, jobsSize>>
       /\ (pc = "fgwait" /\ pc' = "fgwait") => UNCHANGED <<list, jobsSize, mappedJob>>
       /\ (pc = "fgwait" /\ pc' = "prompt") =>
                /\ AllExited(list[mappedJob], procs)
                /\ Removed(mappedJob, list, jobsSize, list', jobsSize')]_vars

\* fg 2 has waited for the middle one of three single-command jobs.
C17_Witness ==
    /\ pc = "prompt"
    /\ lastOp = "fg_waited"
    /\ jobsSize = 2
    /\ report[1].id = 2
    /\ list[0].pids[0] = 1
    /\ list[1].pids[0] = 3

\* C18: fg with an empty registry or with an argument that names no slot in
\* 1 .. job count changes nothing: registry, count, flags, handler, and no
\* process is waited on.
C18_InvalidFgChangesNothing ==
    [][\A arg \in FgArgs :
          (MshFg(arg) /\ (jobsSize = 0 \/ SlotOf(arg) \notin 1 .. jobsSize)) =>
              UNCHANGED <<list, jobsSize, handler, procs, pc>>]_vars

\* C19: a check on a job whose flag is latched returns true without any
\* waitpid, and the flag of a job that stays in the registry never reverts.
C19_LatchedStaysFinished ==
    /\ [](\A k \in DOMAIN report :
            report[k].wasLatched => report[k].done /\ report[k].waits = 0)
    /\ [][\A j \in 0 .. (jobsSize - 1) :
            list[j].finished = 1 =>
                \A j2 \in 0 .. (jobsSize' - 1) :
                    list'[j2].pids[0] = list[j].pids[0] => list'[j2].finished = 1]_vars

\* A listing or fg has checked a job whose flag was already latched.
C19_Witness ==
    \E k \in DOMAIN report : report[k].wasLatched /\ report[k].done

\* C13: a redirection target that cannot be opened leaves the stream bound to
\* what it was, the remaining redirections are applied, and the child still
\* reaches execvp.
C13_FailedOpenStillExecs ==
    \A i \in DOMAIN children :
        /\ children[i].execs
        /\ line.error = "fails" => children[i].fds[STDERR_FILENO] = children[i].err
        /\ line.error = "opens" => children[i].fds[STDERR_FILENO] = ErrorTarget
        /\ (i = 1 /\ line.input = "fails") =>
               children[i].fds[STDIN_FILENO] = children[i].in
        /\ (i = commands /\ line.output = "fails") =>
               children[i].fds[STDOUT_FILENO] = children[i].out

\* C14: a call for N commands creates N - 1 pipes when N > 1 and none when
\* N = 1.
C14_PipesCreated ==
    pc = "fd_return" => pipes = (IF commands > 1 THEN commands - 1 ELSE 0)

\* The pipes a table has a descriptor of.
HeldPipes(t) == {t[fd].id : fd \in {f \in Fds : t[f].kind = "pipe"}}

\* C15: for N > 1 the shell never holds descriptors of more than two pipes,
\* and holds none of any pipe when the call returns.
C15_ShellReleasesPipes ==
    commands > 1 =>
        /\ Cardinality(HeldPipes(fds)) <= 2
        /\ pc = "fd_return" => HeldPipes(fds) = {}

\* A three-stage call has returned; the second and the third pipe were given
\* the same descriptor number for their write ends, one after the other.
C15_Witness ==
    /\ pc = "fd_return"
    /\ commands = 3
    /\ pipes = 3
    /\ p[PIPE_WRITE] = p2[PIPE_WRITE]

\* C16: when the call returns, the shell's stdin, stdout and stderr are open
\* on the files they were open on before the call, whatever the snapshot
\* variables and the pipe arrays held.
C16_StdStreamsRestored ==
    pc = "fd_return" =>
        \A fd \in {STDIN_FILENO, STDOUT_FILENO, STDERR_FILENO} : fds[fd] = File(fd)

\* The stages the shell has finished with: forked, and the parent's closes done.
HandedOff == {i \in DOMAIN children : i - 1 < command}

\* C20: in a pipeline of N >= 2 commands, stage i at execvp has the read end of
\* pipe i-1 as stdin (i > 0) and the write end of pipe i as stdout (i < N-1);
\* the first stdin and the last stdout are the redirection target if there is
\* one that opens, else the inherited stream; it has no other pipe descriptor;
\* and once stage i is handed off nobody else has the write end of pipe i.
C20_StagesWired ==
    commands >= 2 =>
        /\ \A i \in DOMAIN children :
              children[i].execs =>
                  /\ children[i].fds[STDIN_FILENO] =
                         (IF i > 1 THEN PipeEnd(i - 2, "r")
                          ELSE IF line.input = "opens" THEN InputTarget
                          ELSE children[i].in)
                  /\ children[i].fds[STDOUT_FILENO] =
                         (IF i < commands THEN PipeEnd(i - 1, "w")
                          ELSE IF line.output = "opens" THEN OutputTarget
                          ELSE children[i].out)
                  /\ \A fd \in Fds \ {STDIN_FILENO, STDOUT_FILENO} :
                         children[i].fds[fd].kind # "pipe"
        /\ \A i \in HandedOff :
              /\ PipeEnd(i - 1, "w") \notin {fds[fd] : fd \in Fds}
              /\ \A j \in DOMAIN children \ {i} :
                     PipeEnd(i - 1, "w") \notin {children[j].fds[fd] : fd \in Fds}

\* A four-stage pipeline with input and output redirection has returned and
\* every stage reached execvp.
C20_Witness ==
    /\ pc = "fd_return"
    /\ commands = 4
    /\ line.input = "opens"
    /\ line.output = "opens"
    /\ \A i \in 1 .. 4 : children[i].execs

\* A background call that has forked its first stage and has not returned.
BackgroundSpawned == background /\ pc \in {"forkN", "end"}

\* C21: a background pipeline's job is in the registry from the first fork on,
\* its process ids are recorded left to right, one per forked stage, the one
\* "[slot] pid" line is printed once the last process id is recorded and names
\* it, and at the return the job holds the N process ids with finished = 0.
C21_BackgroundJobRecorded ==
    /\ [](BackgroundSpawned =>
            /\ currentJob \in 0 .. (jobsSize - 1)
            /\ list[currentJob].size = commands
            /\ list[currentJob].finished = 0
            /\ \A k \in 1 .. Len(callPids) :
                   list[currentJob].pids[k - 1] = callPids[k]
            /\ Len(callPids) < commands => announced = NoAnnounce
            /\ pc = "end" =>
                   /\ Len(callPids) = commands
                   /\ announced.pid = callPids[commands])
    /\ [][(announced' # announced /\ announced' # NoAnnounce) =>
             /\ announced = NoAnnounce
             /\ Len(callPids') = commands
             /\ announced'.pid = list'[currentJob'].pids[commands - 1]]_vars

\* C22: a foreground call on a pipeline of N >= 2 stages that exit once their
\* input is at end-of-file and their output is written eventually returns,
\* whatever the pipe capacity and the amount of data.
C22_ForegroundPipelineReturns == <>(pc = "prompt")

====
